---- MODULE Spec2Model ----
(***************************************************************************)
(* Model of geomapper/geomapper.py (class GeoMapper) and the configuration *)
(* it consumes (geomapper/config.py).                                      *)
(*                                                                         *)
(* GeoMapper.__init__/_setup build two maps keyed by stream id: _cameras   *)
(* (loaded cameratransform cameras) and _mapping_areas (shapely polygons). *)
(* GeoMapper.get decodes one SaeMessage, looks up the camera of the frame's*)
(* source_id, and annotates the latest detection of every tracklet of that *)
(* camera with the projected coordinate unless the mapping area filters it.*)
(*                                                                         *)
(* Modelling decisions                                                     *)
(*  - _setup reads cam_conf.stream_id, cam_conf.cam_config_path and        *)
(*    cam_conf.mapping_area; a camera entry is a record with these fields  *)
(*    plus passthrough (config.py) and remove_unmapped_detections (named   *)
(*    only in the commented-out lines 79-81).  get never reads the last    *)
(*    two.  CameraConfig in config.py declares neither cam_config_path nor *)
(*    mapping_area; the entries here are the objects _setup is written for.*)
(*  - The numba decorator on _get_center is taken as transparent, and      *)
(*    object_center_elevation_m as part of the fixed projection.           *)
(*  - cameratransform is an external library.  Camera.load is a partial    *)
(*    map from paths to camera objects (an unreadable path raises);        *)
(*    gpsFromImage is a fixed injective function of the pixel that yields  *)
(*    NaN coordinates for a pixel above the horizon row, which is how the  *)
(*    library reports a ray that does not reach the plane.  get has no     *)
(*    try/except anywhere.                                                 *)
(*  - Normalised bounding-box coordinates are the exact values 0 and 1 and *)
(*    image dimensions are even, so (min + max) * dim / 2 is an integer.   *)
(*  - A protobuf message-valued map creates a default entry when indexed   *)
(*    with a missing key (trajectory.cameras[cam_id]); iteration order of  *)
(*    a map is unspecified, so tracklets are visited in any order.         *)
(***************************************************************************)
EXTENDS Integers, Sequences, FiniteSets, TLC

VARIABLES
    config,           \* GeoMapperConfig.cameras, fixed at construction
    ctor,             \* position of __init__: "setup", "ready" or "failed"
    setup_idx,        \* index of the next cam_conf of the loop in _setup
    _cameras,         \* self._cameras: stream id -> camera
    _mapping_areas,   \* self._mapping_areas: stream id -> polygon
    pc,               \* per caller: position inside get
    input_proto,      \* per caller: argument of get
    sae_msg,          \* per caller: decoded message, mutated in place
    camera,           \* per caller: local variable camera
    image_height_px,  \* per caller: local variable
    image_width_px,   \* per caller: local variable
    todo,             \* per caller: track ids the for loop has yet to visit
    detection,        \* per caller: track id whose latest detection is in hand
    center,           \* per caller: local variable center (pixel handed to gpsFromImage)
    result            \* per caller: value returned by get

vars == <<config, ctor, setup_idx, _cameras, _mapping_areas, pc, input_proto,
          sae_msg, camera, image_height_px, image_width_px, todo, detection,
          center, result>>

shared == <<config, ctor, setup_idx, _cameras, _mapping_areas>>

-----------------------------------------------------------------------------
(* Bounds *)

MaxCams == 2      \* longest camera list of a configuration
MaxHist == 2      \* longest detection history of a tracklet

-----------------------------------------------------------------------------
(* Values *)

\* Optional values are sequences of length 0 (absent) or 1.
None == <<>>
Some(x) == <<x>>
Val(o) == o[1]

NaN == None       \* a float that is not a number
Unset == None     \* a geo_coordinate that was never written
Unread == None    \* a local variable not yet assigned
NoTrack == "-"

StreamIds == {"c1", "c2"}
TrackIds == {"t1", "t2"}
Workers == {"w1", "w2"}

\* Files Camera.load can read; any other path raises.
CalibrationFiles ==
    [p \in {"cam.json"} |->
        [image_width_px |-> 4, image_height_px |-> 2, horizon_px |-> 1,
         pos_lat |-> 10, pos_lon |-> 20]]

NoPath == ""
Paths == {NoPath, "missing.json", "cam.json"}

\* A mapping area as configured: an axis-parallel ring in (lon, lat).
Ring == [min_lon |-> 20, max_lon |-> 22, min_lat |-> 10, max_lat |-> 13]

GridLon == 19 .. 25
GridLat == 9 .. 15

Box(a, b, c, d) == [min_x |-> a, max_x |-> b, min_y |-> c, max_y |-> d]

\* Boxes of the latest snapshot: the degenerate box at the origin, the full
\* frame and the degenerate box at the bottom-right corner.
BoundingBoxes == {Box(0, 0, 0, 0), Box(0, 1, 0, 1), Box(1, 1, 1, 1)}

Detection(bbox) == [bounding_box |-> bbox, geo_coordinate |-> Unset]

\* An earlier snapshot of a tracklet.
OldDetection == Detection(Box(0, 1, 1, 1))

RECURSIVE Repeat(_, _)
Repeat(x, n) == IF n = 0 THEN <<>> ELSE <<x>> \o Repeat(x, n - 1)

\* detections_info of a tracklet: at least the snapshot just appended.
Histories ==
    {Repeat(OldDetection, n) \o <<Detection(b)>> :
        n \in 0 .. (MaxHist - 1), b \in BoundingBoxes}

\* TrackletsByCamera.tracklets: track id -> detections_info
TrackMaps == UNION {[s -> Histories] : s \in SUBSET TrackIds}

OtherTracks == [t \in {"t1"} |-> <<OldDetection, Detection(Box(0, 1, 0, 1))>>]

\* SaeMessage: frame.source_id and trajectory.cameras.
Messages ==
    {[source_id |-> s, cameras |-> [c \in {s} |-> tm]] :
        s \in StreamIds, tm \in TrackMaps}
    \cup
    {[source_id |-> s, cameras |-> [c \in StreamIds |->
            IF c = s THEN tm ELSE OtherTracks]] :
        s \in StreamIds, tm \in TrackMaps}
    \cup
    {[source_id |-> s, cameras |-> [c \in StreamIds \ {s} |-> OtherTracks]] :
        s \in StreamIds}

\* Messages of the concurrent specification: one history per tracklet.
SmallMessages ==
    {m \in Messages :
        /\ DOMAIN m.cameras \subseteq {m.source_id}
        /\ \A c \in DOMAIN m.cameras : \A t \in DOMAIN m.cameras[c] :
               Len(m.cameras[c][t]) = 1}

\* CameraConfig as _setup reads it.
CameraConfigs ==
    [stream_id : StreamIds, passthrough : BOOLEAN, cam_config_path : Paths,
     mapping_area : {None, Some(Ring)}, remove_unmapped_detections : BOOLEAN]

RECURSIVE SeqsUpTo(_, _)
SeqsUpTo(S, n) ==
    IF n = 0 THEN {<<>>}
    ELSE LET shorter == SeqsUpTo(S, n - 1)
         IN shorter \cup {Append(q, x) : q \in shorter, x \in S}

\* Camera lists: one entry per stream id, the removal flag only with an area.
Configs ==
    {q \in SeqsUpTo(CameraConfigs, MaxCams) :
        /\ \A i, j \in 1 .. Len(q) : i < j => q[i].stream_id # q[j].stream_id
        /\ \A i \in 1 .. Len(q) :
               q[i].mapping_area = None => ~q[i].remove_unmapped_detections}

-----------------------------------------------------------------------------
(* Helpers of GeoMapper *)

\* ct.Camera.load: raises for a path it cannot read.
CanLoad(path) == path \in DOMAIN CalibrationFiles
CameraLoad(path) == CalibrationFiles[path]

\* shapely shape(): the polygon, as the set of grid points it contains
\* (points on the boundary are not contained).
shape(area) ==
    {p \in [lon : GridLon, lat : GridLat] :
        /\ area.min_lon < p.lon /\ p.lon < area.max_lon
        /\ area.min_lat < p.lat /\ p.lat < area.max_lat}

\* Polygon.contains(ShapelyPoint(lon, lat)); a NaN point is in no polygon.
PolygonContains(poly, lon, lat) ==
    /\ lon # NaN
    /\ lat # NaN
    /\ [lon |-> Val(lon), lat |-> Val(lat)] \in poly

\* dict.get(key): None when the key is missing.
DictGet(d, k) == IF k \in DOMAIN d THEN Some(d[k]) ELSE None

\* self._cameras after self._cameras.get(cam_id): get does not write.
CamerasAfterLookupPop(cams, cam_id) ==
    [k \in DOMAIN cams \ {cam_id} |-> cams[k]]

CamerasAfterLookup(cams, cam_id) == cams

\* _get_center(self, bbox, image_width_px, image_height_px)
_get_center(bbox, width_px, height_px) ==
    [x |-> ((bbox.min_x + bbox.max_x) * width_px) \div 2,
     y |-> ((bbox.min_y + bbox.max_y) * height_px) \div 2]

\* camera.gpsFromImage([x, y], Z): <<lat, lon>>, NaN above the horizon row.
gpsFromImage(cam, x, y) ==
    IF y < cam.horizon_px
    THEN <<NaN, NaN>>
    ELSE <<Some(cam.pos_lat + y), Some(cam.pos_lon + x)>>

\* _is_filtered(cam_id, lat, lon): None (falsy) without a mapping area.
_is_filteredInverted(areas, cam_id, lat, lon) ==
    IF cam_id \in DOMAIN areas
    THEN PolygonContains(areas[cam_id], lon, lat)
    ELSE FALSE

_is_filtered(areas, cam_id, lat, lon) ==
    IF cam_id \in DOMAIN areas
    THEN ~PolygonContains(areas[cam_id], lon, lat)
    ELSE FALSE

\* Wire form of a message: the caller's buffer or a fresh serialisation.
Wire(m) == [encoding |-> "received", msg |-> m]
_unpack_proto(bytes) == bytes.msg
_pack_proto(m) == [encoding |-> "serialized", msg |-> m]

\* trajectory.cameras[cam_id]: indexing inserts an empty entry when missing.
WithCameraEntry(m, cam_id) ==
    IF cam_id \in DOMAIN m.cameras
    THEN m
    ELSE [m EXCEPT !.cameras =
            [c \in DOMAIN m.cameras \cup {cam_id} |->
                IF c = cam_id THEN <<>> ELSE m.cameras[c]]]

\* Index of detections_info[-1].
LatestIndexFirst(dets) == 1

LatestIndex(dets) == Len(dets)

\* Lines 65-69: the pixel and the coordinate computed for one tracklet.
\* The call passes (bbox, image_height_px, image_width_px).
CenterOf(m, cam_id, track_id, height_px, width_px) ==
    LET dets == m.cameras[cam_id][track_id]
    IN _get_center(dets[LatestIndex(dets)].bounding_box, height_px, width_px)

GpsOf(cam, m, cam_id, track_id, height_px, width_px) ==
    LET c == CenterOf(m, cam_id, track_id, height_px, width_px)
    IN gpsFromImage(cam, c.x, c.y)

\* Lines 65-74: one iteration of the for loop on the decoded message.
TransformTracklet(m, areas, cam, cam_id, track_id, height_px, width_px) ==
    LET dets == m.cameras[cam_id][track_id]
        gps == GpsOf(cam, m, cam_id, track_id, height_px, width_px)
        lat == gps[1]
        lon == gps[2]
    IN IF _is_filtered(areas, cam_id, lat, lon)
       THEN m
       ELSE [m EXCEPT !.cameras[cam_id][track_id][LatestIndex(dets)].geo_coordinate =
                Some([latitude |-> lat, longitude |-> lon])]

-----------------------------------------------------------------------------
(* Construction *)

IdleLocals ==
    /\ pc = [w \in Workers |-> "idle"]
    /\ input_proto = [w \in Workers |-> None]
    /\ sae_msg = [w \in Workers |-> None]
    /\ camera = [w \in Workers |-> None]
    /\ image_height_px = [w \in Workers |-> Unread]
    /\ image_width_px = [w \in Workers |-> Unread]
    /\ todo = [w \in Workers |-> {}]
    /\ detection = [w \in Workers |-> NoTrack]
    /\ center = [w \in Workers |-> None]
    /\ result = [w \in Workers |-> None]

\* __init__ up to the call of _setup.
Init ==
    /\ config \in Configs
    /\ ctor = "setup"
    /\ setup_idx = 1
    /\ _cameras = <<>>
    /\ _mapping_areas = <<>>
    /\ IdleLocals

locals == <<pc, input_proto, sae_msg, camera, image_height_px, image_width_px,
            todo, detection, center, result>>

MapPut(d, k, v) == [x \in DOMAIN d \cup {k} |-> IF x = k THEN v ELSE d[x]]

\* One iteration of the loop of _setup; Camera.load raising ends __init__.
SetupCamera ==
    /\ ctor = "setup"
    /\ setup_idx <= Len(config)
    /\ LET cam_conf == config[setup_idx]
       IN IF cam_conf.cam_config_path # NoPath /\ ~CanLoad(cam_conf.cam_config_path)
          THEN /\ ctor' = "failed"
               /\ UNCHANGED <<_cameras, _mapping_areas, setup_idx>>
          ELSE /\ _cameras' =
                    IF cam_conf.cam_config_path # NoPath
                    THEN MapPut(_cameras, cam_conf.stream_id,
                                CameraLoad(cam_conf.cam_config_path))
                    ELSE _cameras
               /\ _mapping_areas' =
                    IF cam_conf.mapping_area # None
                    THEN MapPut(_mapping_areas, cam_conf.stream_id,
                                shape(Val(cam_conf.mapping_area)))
                    ELSE _mapping_areas
               /\ setup_idx' = setup_idx + 1
               /\ UNCHANGED ctor
    /\ UNCHANGED <<config, locals>>

\* _setup and __init__ return.
SetupDone ==
    /\ ctor = "setup"
    /\ setup_idx > Len(config)
    /\ ctor' = "ready"
    /\ UNCHANGED <<config, setup_idx, _cameras, _mapping_areas, locals>>

-----------------------------------------------------------------------------
(* GeoMapper.get *)

\* Lines 51-54: decode, read the source id, look the camera up.
Call(w, msgs) ==
    /\ ctor = "ready"
    /\ pc[w] = "idle"
    /\ \E m \in msgs :
        /\ input_proto' = [input_proto EXCEPT ![w] = Some(Wire(m))]
        /\ sae_msg' = [sae_msg EXCEPT ![w] = Some(_unpack_proto(Wire(m)))]
        /\ camera' = [camera EXCEPT ![w] = DictGet(_cameras, m.source_id)]
        /\ _cameras' = CamerasAfterLookup(_cameras, m.source_id)
    /\ pc' = [pc EXCEPT ![w] = "dims"]
    /\ UNCHANGED <<config, ctor, setup_idx, _mapping_areas, image_height_px,
                   image_width_px, todo, detection, center, result>>

\* Lines 55-56: camera.parameters...; AttributeError when camera is None.
ReadDims(w) ==
    /\ pc[w] = "dims"
    /\ IF camera[w] = None
       THEN /\ pc' = [pc EXCEPT ![w] = "error"]
            /\ UNCHANGED <<image_height_px, image_width_px>>
       ELSE /\ image_height_px' =
                 [image_height_px EXCEPT ![w] = Some(Val(camera[w]).image_height_px)]
            /\ image_width_px' =
                 [image_width_px EXCEPT ![w] = Some(Val(camera[w]).image_width_px)]
            /\ pc' = [pc EXCEPT ![w] = "check"]
    /\ UNCHANGED <<shared, input_proto, sae_msg, camera, todo, detection,
                   center, result>>

\* Lines 58-64: the None test, then the iterator over the camera's tracklets.
CheckCamera(w) ==
    /\ pc[w] = "check"
    /\ IF camera[w] = None
       THEN /\ result' = [result EXCEPT ![w] = input_proto[w]]
            /\ pc' = [pc EXCEPT ![w] = "done"]
            /\ UNCHANGED <<sae_msg, todo>>
       ELSE LET cam_id == Val(sae_msg[w]).source_id
                m == WithCameraEntry(Val(sae_msg[w]), cam_id)
            IN /\ sae_msg' = [sae_msg EXCEPT ![w] = Some(m)]
               /\ todo' = [todo EXCEPT ![w] = DOMAIN m.cameras[cam_id]]
               /\ pc' = [pc EXCEPT ![w] = "loop"]
               /\ UNCHANGED result
    /\ UNCHANGED <<shared, input_proto, camera, image_height_px,
                   image_width_px, detection, center>>

\* Lines 64-74: one iteration of the for loop.
Transform(w) ==
    /\ pc[w] = "loop"
    /\ \E track_id \in todo[w] :
        LET cam_id == Val(sae_msg[w]).source_id
            h == Val(image_height_px[w])
            wd == Val(image_width_px[w])
        IN /\ detection' = [detection EXCEPT ![w] = track_id]
           /\ center' = [center EXCEPT ![w] =
                  Some(CenterOf(Val(sae_msg[w]), cam_id, track_id, h, wd))]
           /\ sae_msg' = [sae_msg EXCEPT ![w] =
                  Some(TransformTracklet(Val(sae_msg[w]), _mapping_areas,
                                         Val(camera[w]), cam_id, track_id,
                                         h, wd))]
           /\ todo' = [todo EXCEPT ![w] = todo[w] \ {track_id}]
    /\ UNCHANGED <<shared, pc, input_proto, camera, image_height_px,
                   image_width_px, result>>

\* Line 83: the loop is exhausted, the message is serialised and returned.
Return(w) ==
    /\ pc[w] = "loop"
    /\ todo[w] = {}
    /\ result' = [result EXCEPT ![w] = Some(_pack_proto(Val(sae_msg[w])))]
    /\ pc' = [pc EXCEPT ![w] = "done"]
    /\ UNCHANGED <<shared, input_proto, sae_msg, camera, image_height_px,
                   image_width_px, todo, detection, center>>

\* The caller has the result (or the exception); the frame of get is gone.
Finish(w) ==
    /\ pc[w] \in {"done", "error"}
    /\ pc' = [pc EXCEPT ![w] = "idle"]
    /\ input_proto' = [input_proto EXCEPT ![w] = None]
    /\ sae_msg' = [sae_msg EXCEPT ![w] = None]
    /\ camera' = [camera EXCEPT ![w] = None]
    /\ image_height_px' = [image_height_px EXCEPT ![w] = Unread]
    /\ image_width_px' = [image_width_px EXCEPT ![w] = Unread]
    /\ todo' = [todo EXCEPT ![w] = {}]
    /\ detection' = [detection EXCEPT ![w] = NoTrack]
    /\ center' = [center EXCEPT ![w] = None]
    /\ result' = [result EXCEPT ![w] = None]
    /\ UNCHANGED shared

\* One caller at a time.
Next ==
    \/ SetupCamera
    \/ SetupDone
    \/ Call("w1", Messages)
    \/ ReadDims("w1")
    \/ CheckCamera("w1")
    \/ Transform("w1")
    \/ Return("w1")
    \/ Finish("w1")

Spec == Init /\ [][Next]_vars

\* Concurrent callers on a single-camera configuration.
InitConc ==
    /\ Init
    /\ Len(config) <= 1

NextConc ==
    \/ SetupCamera
    \/ SetupDone
    \/ \E w \in Workers : Call(w, SmallMessages)
    \/ \E w \in Workers : ReadDims(w)
    \/ \E w \in Workers : CheckCamera(w)
    \/ \E w \in Workers : Transform(w)
    \/ \E w \in Workers : Return(w)
    \/ \E w \in Workers : Finish(w)

SpecConc == InitConc /\ [][NextConc]_vars

-----------------------------------------------------------------------------
(* Vocabulary of the properties *)

Busy(w) == pc[w] # "idle"
InMsg(w) == Val(input_proto[w]).msg
OutMsg(w) == Val(result[w]).msg
Src(w) == InMsg(w).source_id

Configured(c) == \E i \in 1 .. Len(config) : config[i].stream_id = c
ConfOf(c) == config[CHOOSE i \in 1 .. Len(config) : config[i].stream_id = c]
IsPassthrough(c) == Configured(c) /\ ConfOf(c).passthrough

\* The camera of the call is loaded and not configured as passthrough.
Calibrated(w) == camera[w] # None /\ ~IsPassthrough(Src(w))
HasArea(w) == Src(w) \in DOMAIN _mapping_areas

TracksOf(m, c) == IF c \in DOMAIN m.cameras THEN m.cameras[c] ELSE <<>>
InTracks(w) == TracksOf(InMsg(w), Src(w))
OutTracks(w) == TracksOf(OutMsg(w), Src(w))
Last(dets) == dets[Len(dets)]

\* The coordinate the call obtains for the latest snapshot of tracklet t.
ProjectedGps(w, t) ==
    LET cam == Val(camera[w])
    IN GpsOf(cam, InMsg(w), Src(w), t, cam.image_height_px, cam.image_width_px)

ProjectionFails(w, t) == ProjectedGps(w, t) = <<NaN, NaN>>
ProjectsInside(w, t) ==
    /\ ~ProjectionFails(w, t)
    /\ PolygonContains(_mapping_areas[Src(w)],
                       ProjectedGps(w, t)[2], ProjectedGps(w, t)[1])
ProjectsOutside(w, t) ==
    /\ ~ProjectionFails(w, t)
    /\ ~PolygonContains(_mapping_areas[Src(w)],
                        ProjectedGps(w, t)[2], ProjectedGps(w, t)[1])

GeoOf(gps) == Some([latitude |-> gps[1], longitude |-> gps[2]])

-----------------------------------------------------------------------------
(* C1 *)

\* C1: a call whose source_id has no entry in _cameras ends by returning a
\* message equal to its input; it does not end in an error.
C1_UnknownCameraReturnsInput ==
    \A w \in Workers :
        (pc[w] \in {"done", "error"} /\ Src(w) \notin DOMAIN _cameras)
            => (pc[w] = "done" /\ OutMsg(w) = InMsg(w))

(* C2 *)

\* C2: a call whose source_id is configured passthrough = true never hands a
\* pixel to the projector, never ends in an error and returns a message
\* equal to its input.
C2_PassthroughReturnsInput ==
    \A w \in Workers :
        (Busy(w) /\ IsPassthrough(Src(w)))
            => /\ center[w] = None
               /\ pc[w] # "error"
               /\ pc[w] = "done" => OutMsg(w) = InMsg(w)

(* C3 *)

\* C3: for a calibrated camera with a mapping area and
\* remove_unmapped_detections = true, a latest snapshot that projects outside
\* the area is not in the returned message's tracklet.
C3_OutsideDetectionRemoved ==
    \A w \in Workers :
        (pc[w] = "done" /\ Calibrated(w) /\ HasArea(w)
         /\ ConfOf(Src(w)).remove_unmapped_detections)
            => \A t \in DOMAIN InTracks(w) :
                 ProjectsOutside(w, t)
                    => \/ t \notin DOMAIN OutTracks(w)
                       \/ \A i \in 1 .. Len(OutTracks(w)[t]) :
                            OutTracks(w)[t][i].bounding_box
                                # Last(InTracks(w)[t]).bounding_box

(* C4 *)

\* C4: for a calibrated camera a call never ends in an error, a latest
\* snapshot whose projection fails keeps its geo-coordinate unset in the
\* returned message, and every tracklet whose projection succeeds and is not
\* filtered is annotated with its coordinate.
C4_ProjectionFailureIsLocal ==
    \A w \in Workers :
        (Busy(w) /\ Calibrated(w))
            => /\ pc[w] # "error"
               /\ pc[w] = "done" =>
                    \A t \in DOMAIN InTracks(w) :
                        /\ ProjectionFails(w, t)
                             => Last(OutTracks(w)[t]).geo_coordinate = Unset
                        /\ (~ProjectionFails(w, t)
                            /\ (HasArea(w) => ProjectsInside(w, t)))
                             => Last(OutTracks(w)[t]).geo_coordinate
                                    = GeoOf(ProjectedGps(w, t))

(* C5 *)

\* m differs from the input n at most in the geo_coordinate of the last
\* snapshot of tracklets of camera src.
OnlyLatestDiffers(n, m, src) ==
    \A c \in DOMAIN n.cameras :
        /\ c \in DOMAIN m.cameras
        /\ DOMAIN m.cameras[c] = DOMAIN n.cameras[c]
        /\ \A t \in DOMAIN n.cameras[c] :
            /\ Len(m.cameras[c][t]) = Len(n.cameras[c][t])
            /\ \A i \in 1 .. Len(n.cameras[c][t]) :
                /\ m.cameras[c][t][i].bounding_box
                       = n.cameras[c][t][i].bounding_box
                /\ m.cameras[c][t][i] # n.cameras[c][t][i]
                       => (c = src /\ i = Len(n.cameras[c][t]))

\* C5: throughout a call and in its returned message, only the last snapshot
\* of a tracklet of the source camera can differ from the input, and only in
\* its geo-coordinate; earlier snapshots and other cameras' tracklets are
\* those of the input.
C5_OnlyLatestSnapshotWritten ==
    \A w \in Workers :
        /\ pc[w] \in {"loop", "done"}
             => OnlyLatestDiffers(InMsg(w), Val(sae_msg[w]), Src(w))
        /\ (pc[w] = "done" /\ camera[w] # None)
             => OnlyLatestDiffers(InMsg(w), OutMsg(w), Src(w))

\* A returned message in which the last of two snapshots of a tracklet was
\* annotated while another camera's tracklets were present.
C5_Witness ==
    \E w \in Workers :
        /\ pc[w] = "done"
        /\ camera[w] # None
        /\ DOMAIN InMsg(w).cameras = StreamIds
        /\ \E t \in DOMAIN InTracks(w) :
            /\ Len(InTracks(w)[t]) = MaxHist
            /\ Last(OutTracks(w)[t]).geo_coordinate # Unset

(* C6 *)

C7_InvalidCalibrationIsFatal ==
    \A w \in Workers :
        Busy(w) =>
            /\ \A i \in 1 .. Len(config) :
                 ~config[i].passthrough => CanLoad(config[i].cam_config_path)
            /\ (Configured(Src(w)) /\ ~IsPassthrough(Src(w)))
                 => camera[w] # None

(* C8 *)

RECURSIVE TransformAll(_, _, _, _, _)
TransformAll(m, areas, cam, cam_id, tracks) ==
    IF tracks = {}
    THEN m
    ELSE LET t == CHOOSE x \in tracks : TRUE
         IN TransformAll(
                TransformTracklet(m, areas, cam, cam_id, t,
                                  cam.image_height_px, cam.image_width_px),
                areas, cam, cam_id, tracks \ {t})

\* The outcome of one call run alone on the maps built by the constructor:
\* None when it raises.
GetAlone(cams, areas, bytes) ==
    LET n == _unpack_proto(bytes)
        cam_id == n.source_id
        m == WithCameraEntry(n, cam_id)
    IN IF cam_id \notin DOMAIN cams
       THEN None
       ELSE Some(_pack_proto(
                TransformAll(m, areas, cams[cam_id], cam_id,
                             DOMAIN m.cameras[cam_id])))

\* The maps _setup produces from the configuration.
RECURSIVE SetupMaps(_, _)
SetupMaps(q, i) ==
    IF i = 0
    THEN [cameras |-> <<>>, areas |-> <<>>]
    ELSE LET prev == SetupMaps(q, i - 1)
         IN [cameras |->
                IF q[i].cam_config_path # NoPath
                THEN MapPut(prev.cameras, q[i].stream_id,
                            CameraLoad(q[i].cam_config_path))
                ELSE prev.cameras,
             areas |->
                IF q[i].mapping_area # None
                THEN MapPut(prev.areas, q[i].stream_id,
                            shape(Val(q[i].mapping_area)))
                ELSE prev.areas]

CallsAgreeWithAlone ==
    \A w \in Workers :
        LET built == SetupMaps(config, Len(config))
            alone == GetAlone(built.cameras, built.areas, Val(input_proto[w]))
        IN /\ pc[w] = "done" => result[w] = alone
           /\ pc[w] = "error" => alone = None

\* C8: once constructed, no step of any call changes _cameras or
\* _mapping_areas, and under any interleaving of calls every call ends with
\* the outcome that call has when run alone on its message.
C8_CallsAreIndependent ==
    /\ [](CallsAgreeWithAlone)
    /\ [][ctor = "ready" => UNCHANGED <<_cameras, _mapping_areas>>]_vars

\* Two calls on different messages in flight together, one of them returned
\* with an annotation while the other is in its loop.
C8_Witness ==
    /\ pc["w1"] = "done"
    /\ pc["w2"] = "loop"
    /\ todo["w2"] # {}
    /\ input_proto["w1"] # input_proto["w2"]
    /\ OutMsg("w1") # InMsg("w1")

(* C9 *)

\* C9: a call holds an image dimension only after the presence test of
\* line 58 has passed, and a call whose lookup missed never fails on a
\* calibration field.
C9_PresenceCheckedBeforeDims ==
    \A w \in Workers :
        /\ (image_height_px[w] # Unread \/ image_width_px[w] # Unread)
             => pc[w] \in {"loop", "done"}
        /\ (Busy(w) /\ camera[w] = None) => pc[w] # "error"

(* C10 *)

\* C10: the pixel handed to the projector for a detection is
\* ((min_x + max_x) * image_width_px / 2, (min_y + max_y) * image_height_px / 2).
C10_CenterScaledByMatchingDimension ==
    \A w \in Workers :
        center[w] # None =>
            LET bbox == Last(InTracks(w)[detection[w]]).bounding_box
                cam == Val(camera[w])
            IN Val(center[w]) =
                [x |-> ((bbox.min_x + bbox.max_x) * cam.image_width_px) \div 2,
                 y |-> ((bbox.min_y + bbox.max_y) * cam.image_height_px) \div 2]

====
